---- MODULE Spec2Model ----
(***************************************************************************)
(* Model of the "start" command of wijjo/pia: commands.d/start.py          *)
(* (execute), lib/provider.py (Tool.select_servers, Tool.get_vpn_data,     *)
(* Tool.start_firewall), lib/firewall.py, lib/tools.py (run_command,       *)
(* get_running_pid, delete_file, error) and lib/command.py (invoke_run).   *)
(*                                                                         *)
(* One behaviour is one invocation of "pia start".  External programs      *)
(* (openvpn, kill -0, ip route, cat of the log, iptables) are the          *)
(* environment: each call draws its outcome from a small set.              *)
(***************************************************************************)
EXTENDS Integers, Sequences, FiniteSets, TLC

(* ----------------------------- bounds ---------------------------------- *)
\* number of server names in the catalog; option sets list each at most once
MaxServers == 2
\* recent_order values a catalog server may carry
MaxRecentOrder == 2

(* ------------------------ program constants ---------------------------- *)
DEVICE_WAIT_MAX_RETRIES == 5
\* pid used by start.py in a dry run
DRYRUN_PID == -1

(* ------------------------------ values --------------------------------- *)
None == "None"
Names == 1..MaxServers
\* the pid recorded by an earlier invocation, when there is one
EarlierPid == 1
\* the forwarded port an earlier invocation left in the port marker file
EarlierPort == 1
\* interface names the log regex 'TUN/TAP device (\w+) opened' can yield
TunDevices == {"tun0"}
DRYRUN_TUN_DEVICE == "(dryrun-tun-device)"
Chains == {"INPUT", "OUTPUT", "FORWARD"}
\* discipline strings found in an option set; None is the absent value
Disciplines == {None, "first", "Recent", "rotation", "fastest", "bogus"}

VARIABLES
    options,         \* parsed command line: DRYRUN, WAIT, NO_FIREWALL
    pc,              \* position of the invocation
    fatal_msg,       \* message of the fatal error that ended the run, or None
    server_config,   \* option set: number of matched servers and its flags
    servers,         \* names of the candidates select_servers returned, in order
    probes,          \* latency probes (ping) sent by select_servers
    i,               \* 1-based index of the candidate the for loop is at
    recent_servers,  \* saved_state.data.recent_servers (in memory)
    launched,        \* names whose openvpn command was really executed
    rcs,             \* return code of run_command(openvpn) per attempt
    pid,             \* local variable pid of execute (0 is None)
    pid_file,        \* content of the PID marker file (0: no file)
    port_file,       \* content of the port marker file (0: no file)
    running,         \* pids of live tunnel processes
    vpn,             \* VPNConfigData built by get_vpn_data
    retry_num,       \* loop variable of the device wait loop
    cmds,            \* iptables argument lists passed to _iptables_run
    k,               \* next command of firewall.reset() to issue
    filter_failed,   \* some iptables command returned non-zero
    policy,          \* packet filter: default policy per chain
    rules,           \* packet filter: appended rules
    disk_recent,     \* recent_servers as stored in the state file on disk
    fw_params,       \* start_firewall's port_forwarding and block_lan
    new_port,        \* get_forwarded_port's new_port
    client_id_file,  \* content of pia.clientid.rnd (None: no file)
    client_id,       \* local variable client_id of get_forwarded_port
    request,         \* client_id of the forwarding request sent (None: none)
    json_response,   \* what download_json returned for the request
    forwarded_port,  \* the port get_forwarded_port returned
    pf_error,        \* error reported or raised by get_forwarded_port
    sel_cfg,         \* the ServerOptionSet handed to select_servers
    openvpn_servers, \* configuration.Data.openvpn_servers: catalog names
    server_patterns, \* get_server: the patterns of the 'servers' option
    matching_openvpn_servers,  \* get_server: the servers matched, in order
    killed,          \* pids 'sudo kill' has been executed for
    invocation,      \* concurrent start invocations: position and locals of each
    log              \* lines of the tunnel log as last read by get_vpn_data

vars == <<options, pc, fatal_msg, server_config, servers, probes, i,
          recent_servers, launched, rcs, pid, pid_file, port_file, running,
          vpn, retry_num, cmds, k, filter_failed, policy, rules,
          disk_recent, fw_params, new_port, client_id_file, client_id,
          request, json_response, forwarded_port, pf_error, sel_cfg,
          openvpn_servers, server_patterns, matching_openvpn_servers, killed,
          invocation, log>>

\* the state of one call of get_forwarded_port
pf_vars == <<new_port, client_id_file, client_id, request, json_response,
             forwarded_port, pf_error>>

\* the state of option-set resolution and of the stop command
unit_vars == <<sel_cfg, openvpn_servers, server_patterns,
               matching_openvpn_servers, killed, invocation, log>>

(* ------------------------- pure helpers -------------------------------- *)
Min(S) == CHOOSE x \in S : \A y \in S : x <= y

Range(s) == {s[j] : j \in 1..Len(s)}

\* duplicate-free sequences over S of length at most n
RECURSIVE InjSeqs(_, _)
InjSeqs(S, n) ==
    IF n = 0 THEN {<<>>}
    ELSE LET shorter == InjSeqs(S, n - 1)
         IN  shorter \cup UNION {{Append(s, x) : x \in S \ Range(s)} : s \in shorter}

\* str.lower() on the discipline strings
Lower(s) == IF s = "Recent" THEN "recent" ELSE s

(* --------------------------- select_servers ---------------------------- *)
\* mutant: an unstable sort, x goes in front of the elements equal to it
InsertByRecent_unstable(t, x, reverse) ==
    LET after == {j \in 1..Len(t) :
                     IF reverse THEN t[j].recent_order <= x.recent_order
                                ELSE t[j].recent_order >= x.recent_order}
    IN  IF after = {} THEN Append(t, x)
        ELSE SubSeq(t, 1, Min(after) - 1) \o <<x>> \o SubSeq(t, Min(after), Len(t))

\* list.insert keeping the order sorted() gives: x goes behind every element
\* that does not sort strictly after it (sorted is stable, also with reverse)
InsertByRecent(t, x, reverse) ==
    LET after == {j \in 1..Len(t) :
                     IF reverse THEN t[j].recent_order < x.recent_order
                                ELSE t[j].recent_order > x.recent_order}
    IN  IF after = {} THEN Append(t, x)
        ELSE SubSeq(t, 1, Min(after) - 1) \o <<x>> \o SubSeq(t, Min(after), Len(t))

RECURSIVE SortedByRecent(_, _)
SortedByRecent(s, reverse) ==
    IF s = <<>> THEN <<>>
    ELSE InsertByRecent(SortedByRecent(SubSeq(s, 1, Len(s) - 1), reverse),
                        s[Len(s)], reverse)

\* filter(lambda server: server.port_forwarding, servers)
RECURSIVE FilterPortForwarding(_)
FilterPortForwarding(s) ==
    IF s = <<>> THEN <<>>
    ELSE IF s[1].port_forwarding
         THEN <<s[1]>> \o FilterPortForwarding(Tail(s))
         ELSE FilterPortForwarding(Tail(s))

\* mutant: every discipline value is accepted
ValidDiscipline_any(d) == TRUE

\* provider.py:97-112: the values the if/elif chain has a branch for
ValidDiscipline(d) == d \in {"first", "fastest", "recent", "rotation"}

\* mutant: one probe per server whatever the discipline
latency_probes_always(d, s) == Len(s)

\* provider.py:99-101: the tools.test_server_latency calls made.  Only the
\* 'fastest' branch has any, and its loop raises before the first call.
latency_probes(d, s) == 0

\* Tool.select_servers.  status "ok": servers is the non-empty result;
\* "none": the result is None; "bad_discipline": fatal error;
\* "UnboundLocalError": the 'fastest' branch iterates the local 'servers'
\* before it is assigned, so it raises before any probe is sent.
select_servers(cfg) ==
    LET discipline == Lower(IF cfg.discipline = None THEN "first" ELSE cfg.discipline)
        ordered    == CASE discipline = "first"    -> cfg.servers
                        [] discipline = "recent"   -> SortedByRecent(cfg.servers, FALSE)
                        [] discipline = "rotation" -> SortedByRecent(cfg.servers, TRUE)
                        [] OTHER                   -> <<>>
        filtered   == IF cfg.port_forwarding THEN FilterPortForwarding(ordered)
                                             ELSE ordered
        sent       == latency_probes(discipline, cfg.servers)
    IN  IF discipline = "fastest"
        THEN [status |-> "UnboundLocalError", servers |-> <<>>, probes |-> sent]
        ELSE IF ~ValidDiscipline(discipline)
        THEN [status |-> "bad_discipline", servers |-> <<>>, probes |-> sent]
        ELSE IF filtered = <<>>
        THEN [status |-> "none", servers |-> <<>>, probes |-> sent]
        ELSE [status |-> "ok", servers |-> filtered, probes |-> sent]

(* --------------------------- tools helpers ----------------------------- *)
\* tools.get_running_pid(pid_path=...): the pid in the marker file if
\* 'kill -0' succeeds for it, None (0) otherwise
get_running_pid(file, live) ==
    IF file # 0 /\ file \in live THEN file ELSE 0

\* mutant: the already-running check never fires
AlreadyRunning_ignored(p) == FALSE

\* start.py:37 'if pid:'
AlreadyRunning(p) == p # 0

\* mutant: an empty selection is not checked
NoServers_unchecked(sel) == FALSE

\* start.py:42 'if not servers:'
NoServers(sel) == sel.status = "none"

\* mutant: the file is removed in a dry run as well
delete_file_always(file, dryrun, absent) == absent

\* mutant: the file is left in place
delete_file_kept(file, dryrun, absent) == file

\* tools.delete_file under tools.DRYRUN: the file stays in a dry run
delete_file(file, dryrun, absent) == IF dryrun THEN file ELSE absent

(* ------------------------------ inputs --------------------------------- *)
\* Server objects (openvpn.Server) of the catalog
Catalogs == [Names -> [port_forwarding : BOOLEAN, recent_order : 1..MaxRecentOrder]]

ServerOf(cat, n) == [name |-> n, port_forwarding |-> cat[n].port_forwarding,
                     recent_order |-> cat[n].recent_order]

\* ServerOptionSet objects returned by config.get_server
OptionSets ==
    {[servers         |-> [j \in 1..Len(ns) |-> ServerOf(cat, ns[j])],
      discipline      |-> d,
      port_forwarding |-> pf,
      disable_firewall |-> df,
      block_lan       |-> bl] :
        cat \in Catalogs, ns \in InjSeqs(Names, MaxServers), d \in Disciplines,
        pf \in BOOLEAN, df \in BOOLEAN, bl \in BOOLEAN}

NoVpn == [lan_addr |-> None, def_dev |-> None, vpn_dev |-> None,
          addr |-> None, port |-> None, protocol |-> None]

NoConfig == [matched |-> 0, disable_firewall |-> FALSE,
             port_forwarding |-> FALSE, block_lan |-> FALSE]

\* start_firewall's keyword defaults, provider.py:171-172
NoParams == [port_forwarding |-> FALSE, block_lan |-> FALSE]

\* a port value that may be None
NoPort == [none |-> TRUE, val |-> 0]
SomePort(n) == [none |-> FALSE, val |-> n]

\* no download_json call made yet
NoResponse == [kind |-> "unset", port |-> 0]

\* get_forwarded_port not called
NoForwarding ==
    /\ new_port = FALSE
    /\ client_id_file = None
    /\ client_id = None
    /\ request = None
    /\ json_response = NoResponse
    /\ forwarded_port = NoPort
    /\ pf_error = None

\* no option set resolved or selected from, no stop under way
NoOptionSet == [servers |-> <<>>, discipline |-> None,
                port_forwarding |-> FALSE, disable_firewall |-> FALSE,
                block_lan |-> FALSE]

NoUnits ==
    /\ sel_cfg = NoOptionSet
    /\ openvpn_servers = <<>>
    /\ server_patterns = <<>>
    /\ matching_openvpn_servers = <<>>
    /\ killed = {}
    /\ invocation = <<>>
    /\ log = <<>>

\* [server.name for server in servers]
RECURSIVE NamesOf(_)
NamesOf(s) == IF s = <<>> THEN <<>> ELSE <<s[1].name>> \o NamesOf(Tail(s))

(* ------------------------------- Init ---------------------------------- *)
Init ==
    /\ options \in [DRYRUN : BOOLEAN, WAIT : BOOLEAN, NO_FIREWALL : BOOLEAN]
    /\ pc = "execute"
    /\ fatal_msg = None
    /\ server_config = NoConfig
    /\ servers = <<>>
    /\ probes = 0
    /\ i = 1
    /\ recent_servers = <<>>
    /\ launched = <<>>
    /\ rcs = <<>>
    /\ pid = 0
    \* no marker, a stale marker, or the marker of a live earlier tunnel;
    \* the state file is absent, or lists the candidate of that earlier run
    /\ \E st \in {"absent", "stale", "live"} :
          /\ pid_file = IF st = "absent" THEN 0 ELSE EarlierPid
          /\ running = IF st = "live" THEN {EarlierPid} ELSE {}
          /\ port_file \in (IF st = "absent" THEN {0} ELSE {0, EarlierPort})
          /\ disk_recent = IF st = "absent" THEN <<>> ELSE <<1>>
    /\ vpn = NoVpn
    /\ retry_num = 0
    /\ cmds = <<>>
    /\ k = 1
    /\ filter_failed = FALSE
    \* an open filter, or the lockdown an earlier run left behind
    /\ policy \in {[c \in Chains |-> "ACCEPT"], [c \in Chains |-> "DROP"]}
    /\ rules = IF policy["INPUT"] = "DROP" THEN <<"old">> ELSE <<>>
    /\ fw_params = NoParams
    /\ NoForwarding
    /\ NoUnits

\* tools.error(..., fatal_error=True): sys.exit(1), reported by invoke_run
Fatal(msg) == pc' = "exit" /\ fatal_msg' = msg

(* ------------------- execute: lines before the loop -------------------- *)
\* start.py:41-46 for the option set cfg of line 35
SelectFrom(cfg) ==
    LET sel == select_servers(cfg)
    IN  /\ server_config' =
              [matched |-> Len(cfg.servers),
               disable_firewall |-> cfg.disable_firewall,
               port_forwarding |-> cfg.port_forwarding,
               block_lan |-> cfg.block_lan]
        /\ probes' = probes + sel.probes
        /\ IF sel.status \in {"UnboundLocalError", "bad_discipline"}
           THEN /\ Fatal(sel.status)
                /\ UNCHANGED <<servers, pid_file, port_file>>
           ELSE IF NoServers(sel)
           THEN /\ Fatal("no matching servers")
                /\ UNCHANGED <<servers, pid_file, port_file>>
           ELSE /\ servers' = NamesOf(sel.servers)
                /\ pid_file' = delete_file(pid_file, options.DRYRUN, 0)
                /\ port_file' = delete_file(port_file, options.DRYRUN, 0)
                /\ pc' = "connect"
                /\ UNCHANGED fatal_msg

\* start.py:33-46.  The option set (line 35) is only looked at once the
\* already-running check has passed.
Begin ==
    /\ pc = "execute"
    /\ LET p == get_running_pid(pid_file, running)
       IN  /\ pid' = p
           /\ IF AlreadyRunning(p)
              THEN /\ Fatal("already running")
                   /\ UNCHANGED <<server_config, servers, probes, pid_file,
                                  port_file>>
              ELSE \E cfg \in OptionSets : SelectFrom(cfg)
    /\ UNCHANGED <<options, i, recent_servers, launched, rcs, running, vpn,
                   retry_num, cmds, k, filter_failed, policy, rules>>
    /\ UNCHANGED <<disk_recent, fw_params>>
    /\ UNCHANGED pf_vars
    /\ UNCHANGED unit_vars

(* ------------------------ execute: the for loop ------------------------ *)
\* outcomes of run_command('sudo', 'openvpn', ...), start.py:61.
\* daemon mode: "fail" is a non-zero exit code; "live" is exit code 0 with
\* the daemon running and its pid written; "dead" is exit code 0 with the
\* pid written by a daemon that has exited since.  wait mode: the call
\* returns when openvpn has ended, with either exit code.  dry run:
\* run_command executes nothing and returns 0.
LaunchOutcomes(opt) ==
    IF opt.DRYRUN THEN {"skipped"}
    ELSE IF opt.WAIT THEN {"fail", "ended"}
    ELSE {"fail", "live", "dead"}

ReturnCode(out) == IF out = "fail" THEN 1 ELSE 0

\* mutant: the firewall is started without the liveness check of line 68
AfterLaunch_nopidcheck(rc, wait, p, firewall_off) ==
    IF rc = 0 /\ ~wait
    THEN IF firewall_off THEN "break" ELSE "start_firewall"
    ELSE "continue"

\* mutant: the loop goes on to the next candidate whatever the launch gave
AfterLaunch_continue(rc, wait, p, firewall_off) == "continue"

\* mutant: the firewall is started whatever the options say
AfterLaunch_nooption(rc, wait, p, firewall_off) ==
    IF rc = 0 /\ ~wait /\ p # 0 THEN "start_firewall" ELSE "continue"

\* start.py:62-78: what the loop body does once run_command has returned
AfterLaunch(rc, wait, p, firewall_off) ==
    IF rc = 0 /\ ~wait /\ p # 0
    THEN IF firewall_off THEN "break" ELSE "start_firewall"
    ELSE "continue"

\* mutant: the candidate is not recorded
AppendToRecent_skipped(recent, name) == recent

\* start.py:57-60: append to the list, or start one when it is empty/None
AppendToRecent(recent, name) ==
    IF recent # <<>> THEN Append(recent, name) ELSE <<name>>

\* start.py:47-60: the loop picks the next candidate, builds its command
\* line and records its name in saved_state.data.recent_servers (in memory;
\* nothing is written to the state file)
RecordAttempt ==
    /\ pc = "connect"
    /\ i <= Len(servers)
    /\ recent_servers' = AppendToRecent(recent_servers, servers[i])
    /\ pc' = "launch"
    /\ UNCHANGED <<options, fatal_msg, server_config, servers, probes, i,
                   launched, rcs, pid, pid_file, port_file, running, vpn,
                   retry_num, cmds, k, filter_failed, policy, rules>>
    /\ UNCHANGED <<disk_recent, fw_params>>
    /\ UNCHANGED pf_vars
    /\ UNCHANGED unit_vars

\* start.py:61-78.  server.port_forwarding is TRUE for every candidate of an
\* option set that requests port forwarding (provider.py:113-114) and is the
\* catalog's value otherwise.
Connect ==
    /\ pc = "launch"
    /\ \E out \in LaunchOutcomes(options) :
         LET newpid == EarlierPid + Len(launched) + 1
             rc     == ReturnCode(out)
             file   == IF out \in {"live", "dead"} THEN newpid ELSE pid_file
             live   == IF out = "live" THEN running \cup {newpid} ELSE running
             p      == IF options.WAIT \/ rc # 0 THEN pid
                       ELSE IF options.DRYRUN THEN DRYRUN_PID
                       ELSE get_running_pid(file, live)
             step   == AfterLaunch(rc, options.WAIT, p,
                          options.NO_FIREWALL \/ server_config.disable_firewall)
         IN  /\ launched' = IF options.DRYRUN THEN launched
                            ELSE Append(launched, servers[i])
             /\ rcs' = Append(rcs, rc)
             /\ pid_file' = file
             /\ running' = live
             /\ pid' = p
             /\ CASE step = "start_firewall" ->
                       /\ pc' = "get_vpn_data" /\ i' = i
                       /\ \E pf \in (IF server_config.port_forwarding
                                     THEN {TRUE} ELSE BOOLEAN) :
                            fw_params' = [port_forwarding |-> pf,
                                          block_lan |-> server_config.block_lan]
                  [] step = "break"          ->
                       pc' = "returned" /\ i' = i /\ UNCHANGED fw_params
                  [] OTHER                   ->
                       pc' = "connect" /\ i' = i + 1 /\ UNCHANGED fw_params
    /\ UNCHANGED <<options, fatal_msg, server_config, servers, probes,
                   recent_servers, port_file, vpn, retry_num, cmds, k, filter_failed, policy,
                   rules>>
    /\ UNCHANGED disk_recent
    /\ UNCHANGED pf_vars
    /\ UNCHANGED unit_vars

\* start.py:79-86: the else clause of the for loop
LoopElse ==
    /\ pc = "connect"
    /\ i > Len(servers)
    /\ Fatal("failed to start")
    /\ UNCHANGED <<options, server_config, servers, probes, i, recent_servers,
                   launched, rcs, pid, pid_file, port_file, running, vpn,
                   retry_num, cmds, k, filter_failed, policy, rules>>
    /\ UNCHANGED <<disk_recent, fw_params>>
    /\ UNCHANGED pf_vars
    /\ UNCHANGED unit_vars

(* ----------------------------- get_vpn_data ---------------------------- *)
\* provider.py:129-138: 'ip route show' (always_run) and its default line
GetDefaultRoute ==
    /\ pc = "get_vpn_data"
    /\ \E found \in BOOLEAN :
         IF found
         THEN /\ vpn' = [vpn EXCEPT !.lan_addr = "192.168.1.1", !.def_dev = "eth0"]
              /\ retry_num' = 0
              /\ pc' = "device_wait"
              /\ UNCHANGED fatal_msg
         ELSE /\ Fatal("no default device")
              /\ UNCHANGED <<vpn, retry_num>>
    /\ UNCHANGED <<options, server_config, servers, probes, i, recent_servers,
                   launched, rcs, pid, pid_file, port_file, running, cmds, k,
                   filter_failed, policy, rules>>
    /\ UNCHANGED <<disk_recent, fw_params>>
    /\ UNCHANGED pf_vars
    /\ UNCHANGED unit_vars

\* mutant: the placeholder device is used outside a dry run too
DeviceAfterLoop_always(dev, dryrun) ==
    IF dev = None THEN DRYRUN_TUN_DEVICE ELSE dev

\* provider.py:154-155: the device after the wait loop
DeviceAfterLoop(dev, dryrun) ==
    IF dev = None /\ dryrun THEN DRYRUN_TUN_DEVICE ELSE dev

\* provider.py:139-158: one read of the log ('sudo cat', always_run); dev is
\* the device of the first matching line of that read, None without a match
PollLog ==
    /\ pc = "device_wait"
    /\ \E dev \in TunDevices \cup {None} :
         IF dev # None
         THEN /\ vpn' = [vpn EXCEPT !.vpn_dev = dev]
              /\ pc' = "vpn_config"
              /\ UNCHANGED <<retry_num, fatal_msg>>
         ELSE IF retry_num < DEVICE_WAIT_MAX_RETRIES
         THEN /\ retry_num' = retry_num + 1
              /\ UNCHANGED <<vpn, pc, fatal_msg>>
         ELSE LET d == DeviceAfterLoop(vpn.vpn_dev, options.DRYRUN)
              IN  IF d = None
                  THEN /\ Fatal("no TUN/TAP device")
                       /\ UNCHANGED <<vpn, retry_num>>
                  ELSE /\ vpn' = [vpn EXCEPT !.vpn_dev = d]
                       /\ pc' = "vpn_config"
                       /\ UNCHANGED <<retry_num, fatal_msg>>
    /\ UNCHANGED <<options, server_config, servers, probes, i, recent_servers,
                   launched, rcs, pid, pid_file, port_file, running, cmds, k,
                   filter_failed, policy, rules>>
    /\ UNCHANGED <<disk_recent, fw_params>>
    /\ UNCHANGED pf_vars
    /\ UNCHANGED unit_vars

\* provider.py:159-168: the server's configuration file.  remote is TRUE iff
\* a line matches '^\s*remote ([^\s]+) (\d+)\s*$', proto the token of a
\* '^\s*proto (\w+)\s*$' line.  A missing remote line raises no error.
ReadVpnConfig ==
    /\ pc = "vpn_config"
    /\ \E readable \in BOOLEAN, remote \in BOOLEAN, proto \in {None, "udp"} :
         IF ~readable
         THEN /\ Fatal("failed to access input file")
              /\ UNCHANGED <<vpn, k>>
         ELSE /\ vpn' = [vpn EXCEPT !.addr = IF remote THEN "10.9.8.7" ELSE None,
                                    !.port = IF remote THEN "1198" ELSE None,
                                    !.protocol = proto]
              /\ k' = 1
              /\ pc' = "reset"
              /\ UNCHANGED fatal_msg
    /\ UNCHANGED <<options, server_config, servers, probes, i, recent_servers,
                   launched, rcs, pid, pid_file, port_file, running, retry_num,
                   cmds, filter_failed, policy, rules>>
    /\ UNCHANGED <<disk_recent, fw_params>>
    /\ UNCHANGED pf_vars
    /\ UNCHANGED unit_vars

(* ------------------------------ firewall ------------------------------- *)
\* firewall.py:60-65 with 53-56, 8-15: the commands of reset(), in order
reset ==
    << <<"--policy", "INPUT", "ACCEPT">>,
       <<"--policy", "OUTPUT", "ACCEPT">>,
       <<"--policy", "FORWARD", "ACCEPT">>,
       <<"-Z">>, <<"-F">>, <<"-X">> >>

\* what a successful iptables command does to the packet filter
ApplyPolicy(pol, cmd) ==
    IF cmd[1] = "--policy" THEN [pol EXCEPT ![cmd[2]] = cmd[3]] ELSE pol

ApplyRules(rs, cmd) ==
    IF cmd[1] = "-F" THEN <<>>
    ELSE IF cmd[1] = "-A" THEN Append(rs, cmd)
    ELSE rs

\* firewall.py:5-6: _iptables_run drops the CompletedProcess, and run_command
\* is called without fatal_error, so no return code ends the run
iptables_run_fatal(rc) == FALSE

\* exit codes run_command can return for an iptables command
IptablesCodes(dryrun) == IF dryrun THEN {0} ELSE {0, 1}

\* provider.py:175-177: firewall.reset(), one _iptables_run per step
ResetStep ==
    /\ pc = "reset"
    /\ \E rc \in IptablesCodes(options.DRYRUN) :
         LET cmd     == reset[k]
             applied == rc = 0 /\ ~options.DRYRUN
         IN  /\ cmds' = Append(cmds, cmd)
             /\ filter_failed' = (filter_failed \/ rc # 0)
             /\ policy' = IF applied THEN ApplyPolicy(policy, cmd) ELSE policy
             /\ rules' = IF applied THEN ApplyRules(rules, cmd) ELSE rules
             /\ IF iptables_run_fatal(rc)
                THEN Fatal("command failed") /\ k' = k
                ELSE /\ k' = k + 1
                     /\ pc' = IF k = Len(reset) THEN "sshd_port" ELSE "reset"
                     /\ UNCHANGED fatal_msg
    /\ UNCHANGED <<options, server_config, servers, probes, i, recent_servers,
                   launched, rcs, pid, pid_file, port_file, running, vpn,
                   retry_num>>
    /\ UNCHANGED <<disk_recent, fw_params>>
    /\ UNCHANGED pf_vars
    /\ UNCHANGED unit_vars

\* provider.py:179: tools.get_sshd_port is not defined in lib/tools.py, so
\* the attribute lookup raises AttributeError; command.py:46-47 reports it
\* as a fatal error.  (provider.py:181 also passes six arguments to
\* firewall.start, which takes five.)  Nothing after line 179 is executed.
GetSshdPort ==
    /\ pc = "sshd_port"
    /\ Fatal("AttributeError")
    /\ UNCHANGED <<options, server_config, servers, probes, i, recent_servers,
                   launched, rcs, pid, pid_file, port_file, running, vpn,
                   retry_num, cmds, k, filter_failed, policy, rules>>
    /\ UNCHANGED <<disk_recent, fw_params>>
    /\ UNCHANGED pf_vars
    /\ UNCHANGED unit_vars

Next ==
    \/ Begin
    \/ RecordAttempt
    \/ Connect
    \/ LoopElse
    \/ GetDefaultRoute
    \/ PollLog
    \/ ReadVpnConfig
    \/ ResetStep
    \/ GetSshdPort

Spec == Init /\ [][Next]_vars

(* ------------------- lib/firewall.py as a unit ------------------------- *)
\* Bound of the port numbers the forwarding endpoint is modelled to assign
MaxPort == 3

\* tools.py:275: run_command turns every argument into a string
PortArg(p) == IF p.none THEN "None" ELSE ToString(p.val)

\* firewall.py:32-34: _iptables_enable_input_protocol
enable_input_protocol(device, protocol, port) ==
    <<"-A", "INPUT", "-o", device, "-p", protocol, "--dport", port,
      "-j", "ACCEPT">>

\* firewall.py:36-38: _iptables_enable_output_protocol
enable_output_protocol(device, protocol, address, port) ==
    <<"-A", "OUTPUT", "-o", device, "-d", address, "-p", protocol,
      "--dport", port, "-j", "ACCEPT">>

\* firewall.py:40-42: _iptables_enable_input_states('ESTABLISHED', 'RELATED')
enable_input_states ==
    <<"-A", "INPUT", "-m", "state", "--state", "ESTABLISHED,RELATED",
      "-j", "ACCEPT">>

\* firewall.py:67-76: the commands of start(), in order
start(def_dev, vpn_dev, lan_addr, port, protocol) ==
    << <<"--policy", "OUTPUT", "DROP">>,
       <<"--policy", "INPUT", "DROP">>,
       <<"--policy", "FORWARD", "DROP">>,
       <<"-A", "OUTPUT", "-o", "lo", "-j", "ACCEPT">>,
       <<"-A", "OUTPUT", "-o", vpn_dev, "-j", "ACCEPT">>,
       enable_output_protocol(def_dev, protocol, lan_addr, port),
       <<"-A", "INPUT", "-i", "lo", "-j", "ACCEPT">>,
       enable_input_states >>

\* firewall.py:78-81: the commands of forward_port(), in order
forward_port(device, port) ==
    << enable_input_protocol(device, "tcp", port),
       enable_input_protocol(device, "udp", port) >>

\* firewall.py:83-86 with 26-30: the commands of enable_lan(), in order
enable_lan(device, address) ==
    << <<"-A", "OUTPUT", "-o", device, "-d", address, "-j", "ACCEPT">>,
       <<"-A", "INPUT", "-i", device, "-s", address, "-j", "ACCEPT">> >>

\* iptables rejects an argument list holding the text of a None value
IptablesAccepts(cmd) == \A j \in 1..Len(cmd) : cmd[j] # "None"

\* the packet filter after a sequence of commands has been run
RECURSIVE PolicyAfter(_, _)
PolicyAfter(pol, cs) ==
    IF cs = <<>> THEN pol
    ELSE PolicyAfter(IF IptablesAccepts(cs[1]) THEN ApplyPolicy(pol, cs[1])
                     ELSE pol, Tail(cs))

RECURSIVE RulesAfter(_, _)
RulesAfter(rs, cs) ==
    IF cs = <<>> THEN rs
    ELSE RulesAfter(IF IptablesAccepts(cs[1]) THEN ApplyRules(rs, cs[1])
                    ELSE rs, Tail(cs))

\* VPNConfigData objects get_vpn_data can return (provider.py:129-168)
VpnData ==
    {[lan_addr |-> "192.168.1.1", def_dev |-> "eth0", vpn_dev |-> dev,
      addr |-> IF remote THEN "10.9.8.7" ELSE None,
      port |-> IF remote THEN "1198" ELSE None,
      protocol |-> proto] :
        dev \in TunDevices \cup {DRYRUN_TUN_DEVICE}, remote \in BOOLEAN,
        proto \in {None, "udp", "tcp"}}

\* values get_forwarded_port can return: None or a non-zero integer
ReturnedPorts == {NoPort} \cup {SomePort(n) : n \in (-1..MaxPort) \ {0}}

\* lib/firewall.py's public functions, called in the order and with the
\* arguments of provider.py:177-190 (firewall.start with its five
\* parameters), on an interactive run whose iptables commands are executed
FwInit ==
    /\ options = [DRYRUN |-> FALSE, WAIT |-> FALSE, NO_FIREWALL |-> FALSE]
    /\ pc = "firewall.reset"
    /\ fatal_msg = None
    /\ server_config = NoConfig
    /\ servers = <<>>
    /\ probes = 0
    /\ i = 1
    /\ recent_servers = <<>>
    /\ launched = <<>>
    /\ rcs = <<>>
    /\ pid = 0
    /\ pid_file = 0
    /\ port_file = 0
    /\ running = {}
    /\ vpn \in VpnData
    /\ retry_num = 0
    /\ cmds = <<>>
    /\ k = 1
    /\ filter_failed = FALSE
    /\ policy \in {[c \in Chains |-> "ACCEPT"], [c \in Chains |-> "DROP"]}
    /\ rules = IF policy["INPUT"] = "DROP" THEN <<"old">> ELSE <<>>
    /\ disk_recent = <<>>
    /\ fw_params \in [port_forwarding : BOOLEAN, block_lan : BOOLEAN]
    /\ new_port = FALSE
    /\ client_id_file = None
    /\ client_id = None
    /\ request = None
    /\ json_response = NoResponse
    /\ forwarded_port \in ReturnedPorts
    /\ pf_error = None
    /\ NoUnits

\* _iptables_run for each command of cs, then on to the next call
Issue(cs, next) ==
    /\ cmds' = cmds \o cs
    /\ policy' = PolicyAfter(policy, cs)
    /\ rules' = RulesAfter(rules, cs)
    /\ filter_failed' = (filter_failed \/ \E j \in 1..Len(cs) : ~IptablesAccepts(cs[j]))
    /\ pc' = next
    /\ UNCHANGED <<options, fatal_msg, server_config, servers, probes, i,
                   recent_servers, launched, rcs, pid, pid_file, port_file,
                   running, vpn, retry_num, k, disk_recent, fw_params>>
    /\ UNCHANGED pf_vars
    /\ UNCHANGED unit_vars

\* provider.py:177
FirewallReset ==
    /\ pc = "firewall.reset"
    /\ Issue(reset, "firewall.start")

\* provider.py:181, the sixth argument left out
FirewallStart ==
    /\ pc = "firewall.start"
    /\ Issue(start(vpn.def_dev, vpn.vpn_dev, vpn.lan_addr, vpn.port,
                   vpn.protocol), "firewall.forward_port")

\* provider.py:182-187: the port is whatever get_forwarded_port returned
ForwardPort ==
    /\ pc = "firewall.forward_port"
    /\ Issue(IF fw_params.port_forwarding
             THEN forward_port(vpn.vpn_dev, PortArg(forwarded_port))
             ELSE <<>>, "firewall.enable_lan")

\* provider.py:188-190
EnableLan ==
    /\ pc = "firewall.enable_lan"
    /\ Issue(IF ~fw_params.block_lan
             THEN enable_lan(vpn.def_dev, vpn.lan_addr)
             ELSE <<>>, "firewall.done")

FwNext ==
    \/ FirewallReset
    \/ FirewallStart
    \/ ForwardPort
    \/ EnableLan

FwSpec == FwInit /\ [][FwNext]_vars

(* ---------------- PIAProvider.get_forwarded_port as a unit -------------- *)
\* identifiers an earlier call may have stored in pia.clientid.rnd
StoredIds == {"id_a", "id_b"}

\* pia.py:199: hashlib.sha256(os.urandom(16384)).hexdigest()
FreshId == "fresh"

\* pia.py:191-192: the port returned in a dry run
DRYRUN_PORT == 9999

\* what tools.download_json(full_url, timeout=4) can return (tools.py:589-603):
\* None after a download or decode error, an empty object, an object without
\* 'port', or an object whose 'port' is a non-numeric text or an integer
Responses ==
    {[kind |-> kd, port |-> 0] : kd \in {"none", "empty", "missing", "text"}}
        \cup {[kind |-> "int", port |-> n] : n \in -1..MaxPort}

\* pia.py:195: os.path.exists(self.client_id_path) and not new_port
UseStoredId(file, new) == file # None /\ ~new

\* pia.py:200: tools.open_output_file has no parameter named mkdir
\* (tools.py:517), so the call raises TypeError before the file is opened
open_output_file_mkdir == "TypeError"

\* pia.py:206-208: int(json_response.get('port')).  int(None) raises
\* TypeError, which the handler does not catch; a non-numeric text raises
\* ValueError, whose handler formats the unassigned local port and so
\* raises UnboundLocalError
ParsePort(r) ==
    CASE r.kind = "missing" -> [raised |-> "TypeError", port |-> 0]
      [] r.kind = "text"    -> [raised |-> "UnboundLocalError", port |-> 0]
      [] OTHER              -> [raised |-> None, port |-> r.port]

\* one call of get_forwarded_port on an interactive or dry run
PfInit ==
    /\ options \in [DRYRUN : BOOLEAN, WAIT : {FALSE}, NO_FIREWALL : {FALSE}]
    /\ pc = "get_forwarded_port"
    /\ fatal_msg = None
    /\ server_config = NoConfig
    /\ servers = <<>>
    /\ probes = 0
    /\ i = 1
    /\ recent_servers = <<>>
    /\ launched = <<>>
    /\ rcs = <<>>
    /\ pid = 0
    /\ pid_file = 0
    /\ port_file \in {0, EarlierPort}
    /\ running = {}
    /\ vpn = NoVpn
    /\ retry_num = 0
    /\ cmds = <<>>
    /\ k = 1
    /\ filter_failed = FALSE
    /\ policy = [c \in Chains |-> "DROP"]
    /\ rules = <<>>
    /\ disk_recent = <<>>
    /\ fw_params = [port_forwarding |-> TRUE, block_lan |-> FALSE]
    /\ new_port \in BOOLEAN
    /\ client_id_file \in StoredIds \cup {None}
    /\ client_id = None
    /\ request = None
    /\ json_response = NoResponse
    /\ forwarded_port = NoPort
    /\ pf_error = None
    /\ NoUnits

\* what no step of get_forwarded_port touches
PfFrame ==
    UNCHANGED <<options, fatal_msg, server_config, servers, probes, i,
                recent_servers, launched, rcs, pid, pid_file, running, vpn,
                retry_num, cmds, k, filter_failed, policy, rules,
                disk_recent, fw_params, new_port, sel_cfg, openvpn_servers,
                server_patterns, matching_openvpn_servers, killed,
                invocation, log>>

\* pia.py:191-201: dry-run return, then load or generate the client id
LoadClientId ==
    /\ pc = "get_forwarded_port"
    /\ IF options.DRYRUN
       THEN /\ forwarded_port' = SomePort(DRYRUN_PORT)
            /\ pc' = "pf_returned"
            /\ UNCHANGED <<client_id, pf_error>>
       ELSE IF UseStoredId(client_id_file, new_port)
       THEN /\ client_id' = client_id_file
            /\ pc' = "download_json"
            /\ UNCHANGED <<forwarded_port, pf_error>>
       ELSE /\ client_id' = FreshId
            /\ pf_error' = open_output_file_mkdir
            /\ pc' = "pf_raised"
            /\ UNCHANGED forwarded_port
    /\ UNCHANGED <<client_id_file, request, json_response, port_file>>
    /\ PfFrame

\* pia.py:202-203: the forwarding request; download errors are not fatal
RequestForwarding ==
    /\ pc = "download_json"
    /\ request' = client_id
    /\ json_response' \in Responses
    /\ pc' = "parse_port"
    /\ UNCHANGED <<client_id_file, client_id, forwarded_port, pf_error,
                   port_file>>
    /\ PfFrame

\* pia.py:204-216
HandleResponse ==
    /\ pc = "parse_port"
    /\ IF json_response.kind \in {"none", "empty"}
       THEN /\ pf_error' = "Failed to establish port forwarding."
            /\ pc' = "pf_returned"
            /\ UNCHANGED <<forwarded_port, port_file>>
       ELSE LET parsed == ParsePort(json_response)
            IN  IF parsed.raised # None
                THEN /\ pf_error' = parsed.raised
                     /\ pc' = "pf_raised"
                     /\ UNCHANGED <<forwarded_port, port_file>>
                ELSE IF parsed.port # 0
                THEN /\ port_file' = parsed.port
                     /\ forwarded_port' = SomePort(parsed.port)
                     /\ pc' = "pf_returned"
                     /\ UNCHANGED pf_error
                ELSE /\ pc' = "pf_returned"
                     /\ UNCHANGED <<forwarded_port, port_file, pf_error>>
    /\ UNCHANGED <<client_id_file, client_id, request, json_response>>
    /\ PfFrame

PfNext ==
    \/ LoadClientId
    \/ RequestForwarding
    \/ HandleResponse

PfSpec == PfInit /\ [][PfNext]_vars

(* ------------- start.py:33-46 for a recorded option set ---------------- *)
\* the start of execute, from the already-running check to the deletion of
\* the markers, with the option set of line 35 kept in sel_cfg; the markers
\* are those of an earlier tunnel, which may still be running
SelInit ==
    /\ options \in [DRYRUN : BOOLEAN, WAIT : {FALSE}, NO_FIREWALL : {FALSE}]
    /\ pc = "execute"
    /\ fatal_msg = None
    /\ server_config = NoConfig
    /\ servers = <<>>
    /\ probes = 0
    /\ i = 1
    /\ recent_servers = <<>>
    /\ launched = <<>>
    /\ rcs = <<>>
    /\ pid = 0
    /\ pid_file = EarlierPid
    /\ port_file = EarlierPort
    /\ running \in {{}, {EarlierPid}}
    /\ vpn = NoVpn
    /\ retry_num = 0
    /\ cmds = <<>>
    /\ k = 1
    /\ filter_failed = FALSE
    /\ policy = [c \in Chains |-> "ACCEPT"]
    /\ rules = <<>>
    /\ disk_recent = <<>>
    /\ fw_params = NoParams
    /\ NoForwarding
    /\ sel_cfg \in OptionSets
    /\ openvpn_servers = <<>>
    /\ server_patterns = <<>>
    /\ matching_openvpn_servers = <<>>
    /\ killed = {}
    /\ invocation = <<>>
    /\ log = <<>>

SelBegin ==
    /\ pc = "execute"
    /\ LET p == get_running_pid(pid_file, running)
       IN  /\ pid' = p
           /\ IF AlreadyRunning(p)
              THEN /\ Fatal("already running")
                   /\ UNCHANGED <<server_config, servers, probes, pid_file,
                                  port_file>>
              ELSE SelectFrom(sel_cfg)
    /\ UNCHANGED <<options, i, recent_servers, launched, rcs, running, vpn,
                   retry_num, cmds, k, filter_failed, policy, rules>>
    /\ UNCHANGED <<disk_recent, fw_params>>
    /\ UNCHANGED pf_vars
    /\ UNCHANGED unit_vars

SelNext ==
    \/ SelBegin

SelSpec == SelInit /\ [][SelNext]_vars

(* ------------------------------ stop.py -------------------------------- *)
\* process ids a PID marker can hold
Pids == 1..(EarlierPid + MaxServers)

\* mutant: the signal goes to another process
kill_target_other(p) == IF p = EarlierPid THEN EarlierPid + 1 ELSE EarlierPid

\* stop.py:16: run_command('sudo', 'kill', pid) names the pid that was read
kill_target(p) == p

\* state before a stop: any marker content, any set of live processes
StopInit ==
    /\ options \in [DRYRUN : BOOLEAN, WAIT : {FALSE}, NO_FIREWALL : {FALSE}]
    /\ pc = "stop"
    /\ fatal_msg = None
    /\ server_config = NoConfig
    /\ servers = <<>>
    /\ probes = 0
    /\ i = 1
    /\ recent_servers = <<>>
    /\ launched = <<>>
    /\ rcs = <<>>
    /\ pid = 0
    /\ pid_file \in {0} \cup Pids
    /\ port_file \in 0..MaxPort
    /\ running \in SUBSET Pids
    /\ vpn = NoVpn
    /\ retry_num = 0
    /\ cmds = <<>>
    /\ k = 1
    /\ filter_failed = FALSE
    \* an open filter, or the lockdown a start left behind
    /\ policy \in {[c \in Chains |-> "ACCEPT"], [c \in Chains |-> "DROP"]}
    /\ rules = IF policy["INPUT"] = "DROP" THEN <<"old">> ELSE <<>>
    /\ disk_recent = <<>>
    /\ fw_params = NoParams
    /\ NoForwarding
    /\ NoUnits

StopFrame ==
    /\ UNCHANGED <<options, server_config, servers, probes, i, recent_servers,
                   launched, vpn, retry_num, k, filter_failed>>
    /\ UNCHANGED <<disk_recent, fw_params>>
    /\ UNCHANGED pf_vars
    /\ UNCHANGED <<sel_cfg, openvpn_servers, server_patterns,
                   matching_openvpn_servers, invocation, log>>

\* stop.py:12-14: the liveness probe; no live recorded pid is fatal
StopCheck ==
    /\ pc = "stop"
    /\ LET p == get_running_pid(pid_file, running)
       IN  /\ pid' = p
           /\ IF p = 0
              THEN Fatal("not running")
              ELSE pc' = "kill" /\ UNCHANGED fatal_msg
    /\ UNCHANGED <<rcs, pid_file, port_file, running, killed>>
    /\ UNCHANGED <<cmds, policy, rules>>
    /\ StopFrame

\* stop.py:15-16: 'sudo kill <pid>' through run_command, which executes
\* nothing in a dry run and whose exit code is not looked at; killed holds
\* the pids named in executed kill commands, and the signalled process ends
\* or not
StopKill ==
    /\ pc = "kill"
    /\ IF options.DRYRUN
       THEN /\ rcs' = Append(rcs, 0)
            /\ UNCHANGED <<killed, running>>
       ELSE \E rc \in {0, 1} :
              /\ rcs' = Append(rcs, rc)
              /\ killed' = killed \cup {kill_target(pid)}
              /\ running' \in {running} \cup
                     (IF rc = 0 THEN {running \ {kill_target(pid)}} ELSE {})
    /\ pc' = "delete"
    /\ UNCHANGED <<fatal_msg, pid, pid_file, port_file>>
    /\ UNCHANGED <<cmds, policy, rules>>
    /\ StopFrame

\* mutant: stop also opens the packet filter again
StopDelete_reset ==
    /\ pc = "delete"
    /\ pid_file' = delete_file(pid_file, options.DRYRUN, 0)
    /\ port_file' = delete_file(port_file, options.DRYRUN, 0)
    /\ pc' = "returned"
    /\ UNCHANGED <<fatal_msg, rcs, pid, running, killed>>
    /\ cmds' = cmds \o reset
    /\ policy' = [c \in Chains |-> "ACCEPT"]
    /\ rules' = <<>>
    /\ StopFrame

\* stop.py:17: delete_file(pid_path, port_path), the last statement; no
\* function of lib/firewall.py is called by stop
StopDelete ==
    /\ pc = "delete"
    /\ pid_file' = delete_file(pid_file, options.DRYRUN, 0)
    /\ port_file' = delete_file(port_file, options.DRYRUN, 0)
    /\ pc' = "returned"
    /\ UNCHANGED <<fatal_msg, rcs, pid, running, killed>>
    /\ UNCHANGED <<cmds, policy, rules>>
    /\ StopFrame

StopNext ==
    \/ StopCheck
    \/ StopKill
    \/ StopDelete

StopSpec == StopInit /\ [][StopNext]_vars

(* ------------------- configuration.Data.get_server --------------------- *)
\* most servers in a catalog, most patterns in a 'servers' option
MaxCatalog == 3
MaxPatterns == 2

\* Names and patterns are sequences of characters; in this part a server is
\* represented by its name.
CatalogNames == {<<"a">>, <<"A">>, <<"a", "b">>, <<"b">>}
Patterns == {<<"*">>, <<"a", "*">>, <<"A">>, <<"b">>, <<"*", "b">>,
             <<"a", "B">>}

\* re.IGNORECASE on one character
Fold(c) == IF c = "A" THEN "a" ELSE IF c = "B" THEN "b" ELSE c

\* configuration.py:170-173: re.match of '^' + pattern with every '*'
\* replaced by '.*' + '$', ignoring case
RECURSIVE Matches(_, _)
Matches(pat, nm) ==
    IF pat = <<>> THEN nm = <<>>
    ELSE IF pat[1] = "*"
         THEN \/ Matches(Tail(pat), nm)
              \/ nm # <<>> /\ Matches(pat, Tail(nm))
         ELSE /\ nm # <<>>
              /\ Fold(pat[1]) = Fold(nm[1])
              /\ Matches(Tail(pat), Tail(nm))

\* mutant: a server is appended every time a pattern matches it
AddMatch_again(acc, server) == Append(acc, server)

\* configuration.py:174-176: matched_server_names keeps a server from being
\* appended twice
AddMatch(acc, server) ==
    IF server \in Range(acc) THEN acc ELSE Append(acc, server)

\* configuration.py:172-176: the inner loop over the catalog for one pattern
RECURSIVE ScanCatalog(_, _, _)
ScanCatalog(pat, cat, acc) ==
    IF cat = <<>> THEN acc
    ELSE ScanCatalog(pat, Tail(cat),
                     IF Matches(pat, cat[1]) THEN AddMatch(acc, cat[1])
                     ELSE acc)

\* configuration.py:167-176: the outer loop over the patterns
RECURSIVE get_server(_, _, _)
get_server(pats, cat, acc) ==
    IF pats = <<>> THEN acc
    ELSE get_server(Tail(pats), cat, ScanCatalog(pats[1], cat, acc))

\* a catalog of distinctly named servers and the patterns of an option set
MatchInit ==
    /\ options = [DRYRUN |-> FALSE, WAIT |-> FALSE, NO_FIREWALL |-> FALSE]
    /\ pc = "get_server"
    /\ fatal_msg = None
    /\ server_config = NoConfig
    /\ servers = <<>>
    /\ probes = 0
    /\ i = 1
    /\ recent_servers = <<>>
    /\ launched = <<>>
    /\ rcs = <<>>
    /\ pid = 0
    /\ pid_file = 0
    /\ port_file = 0
    /\ running = {}
    /\ vpn = NoVpn
    /\ retry_num = 0
    /\ cmds = <<>>
    /\ k = 1
    /\ filter_failed = FALSE
    /\ policy = [c \in Chains |-> "ACCEPT"]
    /\ rules = <<>>
    /\ disk_recent = <<>>
    /\ fw_params = NoParams
    /\ NoForwarding
    /\ sel_cfg = NoOptionSet
    /\ openvpn_servers \in UNION {InjSeqs(CatalogNames, n) : n \in 0..MaxCatalog}
    /\ server_patterns \in UNION {[1..n -> Patterns] : n \in 0..MaxPatterns}
    /\ matching_openvpn_servers = <<>>
    /\ killed = {}
    /\ invocation = <<>>
    /\ log = <<>>

\* configuration.py:156-180: the option set's server list is resolved
GetServer ==
    /\ pc = "get_server"
    /\ matching_openvpn_servers' =
           get_server(server_patterns, openvpn_servers, <<>>)
    /\ pc' = "resolved"
    /\ UNCHANGED <<options, fatal_msg, server_config, servers, probes, i,
                   recent_servers, launched, rcs, pid, pid_file, port_file,
                   running, vpn, retry_num, cmds, k, filter_failed, policy,
                   rules>>
    /\ UNCHANGED <<disk_recent, fw_params>>
    /\ UNCHANGED pf_vars
    /\ UNCHANGED <<sel_cfg, openvpn_servers, server_patterns, killed,
                   invocation, log>>

MatchNext ==
    \/ GetServer

MatchSpec == MatchInit /\ [][MatchNext]_vars

(* ---------------------- consecutive start runs ------------------------- *)
\* tools.py:658-678: PersistentJSONData.__init__ reads the state file into
\* self.data and then ends with self.data = Data(), an empty dict; so
\* saved_state.data.recent_servers is None, 'or []' (provider.py:74)
LoadRecent(disk) == <<>>

\* pia.py:235-238: recent.index(name) + 1 for a listed name (the position
\* of its first occurrence), len(recent) + 1 otherwise
recent_order(recent, nm) ==
    IF nm \in Range(recent)
    THEN Min({j \in 1..Len(recent) : recent[j] = nm})
    ELSE Len(recent) + 1

\* pia.py:231-245, configuration.py:172-176: the option set's servers as the
\* run sees them, each with the recent_order computed from the loaded list
Rerank(cfg, recent) ==
    [cfg EXCEPT !.servers =
        [j \in 1..Len(cfg.servers) |->
            [cfg.servers[j] EXCEPT
                !.recent_order = recent_order(recent, cfg.servers[j].name)]]]

\* start.py:57-60 over the candidates the loop reached
RECURSIVE AppendAll(_, _)
AppendAll(recent, nms) ==
    IF nms = <<>> THEN recent
    ELSE AppendAll(AppendToRecent(recent, nms[1]), Tail(nms))

\* The user's option set before the first run, and a state file that is
\* absent or left by an earlier run.  The tunnel of one run is stopped
\* before the next run starts, so the markers play no part here.
RunsInit ==
    /\ options = [DRYRUN |-> FALSE, WAIT |-> FALSE, NO_FIREWALL |-> TRUE]
    /\ pc = "idle"
    /\ fatal_msg = None
    /\ server_config = NoConfig
    /\ servers = <<>>
    /\ probes = 0
    /\ i = 1
    /\ recent_servers = <<>>
    /\ launched = <<>>
    /\ rcs = <<>>
    /\ pid = 0
    /\ pid_file = 0
    /\ port_file = 0
    /\ running = {}
    /\ vpn = NoVpn
    /\ retry_num = 0
    /\ cmds = <<>>
    /\ k = 1
    /\ filter_failed = FALSE
    /\ policy = [c \in Chains |-> "ACCEPT"]
    /\ rules = <<>>
    /\ disk_recent \in {<<>>} \cup {<<n>> : n \in Names}
    /\ fw_params = NoParams
    /\ NoForwarding
    /\ sel_cfg \in {c \in OptionSets :
                      /\ c.discipline \in {"first", "Recent", "rotation"}
                      /\ c.disable_firewall /\ ~c.block_lan
                      /\ \A j \in 1..Len(c.servers) :
                            c.servers[j].recent_order = 1}
    /\ openvpn_servers = <<>>
    /\ server_patterns = <<>>
    /\ matching_openvpn_servers = <<>>
    /\ killed = {}
    /\ invocation = <<>>
    /\ log = <<>>

\* start.py:31-46 of one start invocation: the state is loaded, the servers
\* are ranked (pia.py:231-245) and selected
StartRun ==
    /\ pc = "idle"
    /\ LET recent == LoadRecent(disk_recent)
           sel    == select_servers(Rerank(sel_cfg, recent))
       IN  /\ sel_cfg' = Rerank(sel_cfg, recent)
           /\ servers' = NamesOf(sel.servers)
           /\ recent_servers' = recent
           /\ IF sel.status # "ok"
              THEN pc' = "failed" /\ fatal_msg' = "no matching servers"
              ELSE pc' = "connect" /\ fatal_msg' = None
    /\ launched' = <<>>
    /\ rcs' = <<>>
    /\ UNCHANGED <<options, server_config, probes, i, pid, pid_file, port_file,
                   running, vpn, retry_num, cmds, k, filter_failed, policy,
                   rules>>
    /\ UNCHANGED <<disk_recent, fw_params>>
    /\ UNCHANGED pf_vars
    /\ UNCHANGED <<openvpn_servers, server_patterns, matching_openvpn_servers,
                   killed, invocation, log>>

\* start.py:47-86 with the firewall disabled: the loop records and launches
\* candidates until one connects (the c-th) or all have failed (c = 0).
\* Nothing writes the state file: start.py has no cleanup, so Tool.cleanup
\* (provider.py:66-68) is never called.
LaunchLoop ==
    /\ pc = "connect"
    /\ \E c \in 0..Len(servers) :
         LET n == IF c = 0 THEN Len(servers) ELSE c
         IN  /\ recent_servers' = AppendAll(recent_servers, SubSeq(servers, 1, n))
             /\ launched' = SubSeq(servers, 1, n)
             /\ rcs' = [j \in 1..n |-> IF j = c THEN 0 ELSE 1]
             /\ pc' = IF c = 0 THEN "failed" ELSE "connected"
             /\ fatal_msg' = IF c = 0 THEN "failed to start" ELSE None
    /\ UNCHANGED <<options, server_config, servers, probes, i, pid, pid_file,
                   port_file, running, vpn, retry_num, cmds, k, filter_failed,
                   policy, rules>>
    /\ UNCHANGED <<disk_recent, fw_params>>
    /\ UNCHANGED pf_vars
    /\ UNCHANGED unit_vars

\* The run is over (the tunnel stopped, stop.py:10-17, or the start failed);
\* servers, recent_servers, launched and rcs keep the values of that run
\* until the next one starts.
StopRun ==
    /\ pc \in {"connected", "failed"}
    /\ pc' = "idle"
    /\ fatal_msg' = None
    /\ UNCHANGED <<options, server_config, servers, probes, i, recent_servers,
                   launched, rcs, pid, pid_file, port_file, running, vpn,
                   retry_num, cmds, k, filter_failed, policy, rules>>
    /\ UNCHANGED <<disk_recent, fw_params>>
    /\ UNCHANGED pf_vars
    /\ UNCHANGED unit_vars

RunsNext ==
    \/ StartRun
    \/ LaunchLoop
    \/ StopRun

RunsSpec == RunsInit /\ [][RunsNext]_vars

\* repeated invocations: the user goes on starting and stopping
RunsFairSpec ==
    RunsSpec /\ WF_vars(StartRun) /\ WF_vars(LaunchLoop) /\ WF_vars(StopRun)

(* ------------------- two concurrent start invocations ------------------ *)
\* Two "pia start" processes on one host, each with one candidate, in
\* daemon mode.  They share the marker files, the process table and the
\* packet filter; invocation[p] holds the position of process p, its local
\* variable pid, whether it has run its launch command and with which
\* return code, and whether it has issued packet-filter commands.
Procs == {1, 2}

Started == [pc |-> "execute", pid |-> 0, launched |-> FALSE, rc |-> 0,
            filtered |-> FALSE]

ConcInit ==
    /\ options \in [DRYRUN : {FALSE}, WAIT : {FALSE}, NO_FIREWALL : BOOLEAN]
    /\ pc = "concurrent"
    /\ fatal_msg = None
    /\ server_config = NoConfig
    /\ servers = <<>>
    /\ probes = 0
    /\ i = 1
    /\ recent_servers = <<>>
    /\ launched = <<>>
    /\ rcs = <<>>
    /\ pid = 0
    /\ \E st \in {"absent", "stale", "live"} :
          /\ pid_file = IF st = "absent" THEN 0 ELSE EarlierPid
          /\ running = IF st = "live" THEN {EarlierPid} ELSE {}
          /\ port_file \in (IF st = "absent" THEN {0} ELSE {0, EarlierPort})
    /\ vpn = NoVpn
    /\ retry_num = 0
    /\ cmds = <<>>
    /\ k = 1
    /\ filter_failed = FALSE
    /\ policy \in {[c \in Chains |-> "ACCEPT"], [c \in Chains |-> "DROP"]}
    /\ rules = IF policy["INPUT"] = "DROP" THEN <<"old">> ELSE <<>>
    /\ disk_recent = <<>>
    /\ fw_params = NoParams
    /\ NoForwarding
    /\ sel_cfg = NoOptionSet
    /\ openvpn_servers = <<>>
    /\ server_patterns = <<>>
    /\ matching_openvpn_servers = <<>>
    /\ killed = {}
    /\ invocation = [p \in Procs |-> Started]
    /\ log = <<>>

\* what no step of the two processes touches
ConcFrame ==
    /\ UNCHANGED <<options, pc, fatal_msg, server_config, servers, probes, i,
                   recent_servers, launched, rcs, pid, vpn, retry_num, k,
                   filter_failed>>
    /\ UNCHANGED <<disk_recent, fw_params>>
    /\ UNCHANGED pf_vars
    /\ UNCHANGED <<sel_cfg, openvpn_servers, server_patterns,
                   matching_openvpn_servers, killed, log>>

\* start.py:36-38: the already-running check of process p
ConcCheck(p) ==
    /\ invocation[p].pc = "execute"
    /\ LET found == get_running_pid(pid_file, running)
       IN  invocation' = [invocation EXCEPT
               ![p].pid = found,
               ![p].pc  = IF AlreadyRunning(found) THEN "exit" ELSE "select"]
    /\ UNCHANGED <<pid_file, port_file, running, cmds, policy, rules>>
    /\ ConcFrame

\* start.py:41-46: selection (one candidate) and delete_file of both markers
ConcDelete(p) ==
    /\ invocation[p].pc = "select"
    /\ pid_file' = delete_file(pid_file, options.DRYRUN, 0)
    /\ port_file' = delete_file(port_file, options.DRYRUN, 0)
    /\ invocation' = [invocation EXCEPT ![p].pc = "launch"]
    /\ UNCHANGED <<running, cmds, policy, rules>>
    /\ ConcFrame

\* start.py:47-62: process p runs 'sudo openvpn --daemon ... --writepid';
\* a daemon that came up writes its pid over whatever the marker holds.  A
\* non-zero exit code leaves the loop by its else clause (start.py:79-86).
ConcLaunch(p) ==
    /\ invocation[p].pc = "launch"
    /\ \E out \in LaunchOutcomes(options) :
         LET newpid == EarlierPid + p
         IN  /\ pid_file' = IF out \in {"live", "dead"} THEN newpid ELSE pid_file
             /\ running' = IF out = "live" THEN running \cup {newpid} ELSE running
             /\ invocation' = [invocation EXCEPT
                    ![p].launched = TRUE,
                    ![p].rc = ReturnCode(out),
                    ![p].pc = IF ReturnCode(out) = 0 THEN "probe" ELSE "exit"]
    /\ UNCHANGED <<port_file, cmds, policy, rules>>
    /\ ConcFrame

\* start.py:67-78: the liveness probe through the shared PID marker
ConcProbe(p) ==
    /\ invocation[p].pc = "probe"
    /\ LET found == get_running_pid(pid_file, running)
           step  == AfterLaunch(0, options.WAIT, found, options.NO_FIREWALL)
       IN  invocation' = [invocation EXCEPT
               ![p].pid = found,
               ![p].pc  = CASE step = "start_firewall" -> "start_firewall"
                            [] step = "break"          -> "returned"
                            [] OTHER                   -> "exit"]
    /\ UNCHANGED <<pid_file, port_file, running, cmds, policy, rules>>
    /\ ConcFrame

\* provider.py:170-179: start_firewall of process p.  get_vpn_data finds the
\* devices or ends the run; then firewall.reset() issues its commands and
\* line 179 raises AttributeError.
ConcFirewall(p) ==
    /\ invocation[p].pc = "start_firewall"
    /\ \E found \in BOOLEAN :
         IF found
         THEN /\ cmds' = cmds \o reset
              /\ policy' = PolicyAfter(policy, reset)
              /\ rules' = RulesAfter(rules, reset)
              /\ invocation' = [invocation EXCEPT ![p].filtered = TRUE,
                                                  ![p].pc = "exit"]
         ELSE /\ invocation' = [invocation EXCEPT ![p].pc = "exit"]
              /\ UNCHANGED <<cmds, policy, rules>>
    /\ UNCHANGED <<pid_file, port_file, running>>
    /\ ConcFrame

ConcNext ==
    \/ \E p \in Procs : ConcCheck(p)
    \/ \E p \in Procs : ConcDelete(p)
    \/ \E p \in Procs : ConcLaunch(p)
    \/ \E p \in Procs : ConcProbe(p)
    \/ \E p \in Procs : ConcFirewall(p)

ConcSpec == ConcInit /\ [][ConcNext]_vars

(* ------------------ get_vpn_data: the device wait loop ----------------- *)
\* most lines in the tunnel log
MaxLines == 2

\* lines of the log: two that name a device, one that does not
LogLines == {"TUN/TAP device tun0 opened", "TUN/TAP device tun1 opened",
             "Initialization Sequence Completed"}

\* provider.py:39, 146-148: vpn_device_regex.search(line), group 1
vpn_device_regex(line) ==
    CASE line = "TUN/TAP device tun0 opened" -> "tun0"
      [] line = "TUN/TAP device tun1 opened" -> "tun1"
      [] OTHER                               -> None

\* mutant: the loop over the lines does not break at a match
vpn_dev_of_last(lines) ==
    LET m == {j \in 1..Len(lines) : vpn_device_regex(lines[j]) # None}
    IN  IF m = {} THEN None
        ELSE vpn_device_regex(lines[CHOOSE j \in m : \A h \in m : h <= j])

\* provider.py:145-152: the inner loop breaks at the first matching line
RECURSIVE vpn_dev_of(_)
vpn_dev_of(lines) ==
    IF lines = <<>> THEN None
    ELSE IF vpn_device_regex(lines[1]) # None THEN vpn_device_regex(lines[1])
    ELSE vpn_dev_of(Tail(lines))

\* what 'sudo cat <log>' can return when the previous read returned old:
\* the log only grows
LogReads(old) ==
    UNION {{old \o more : more \in [1..n -> LogLines]} :
              n \in 0..(MaxLines - Len(old))}

\* get_vpn_data has found the default route and enters the wait loop
WaitInit ==
    /\ options \in [DRYRUN : BOOLEAN, WAIT : {FALSE}, NO_FIREWALL : {FALSE}]
    /\ pc = "device_wait"
    /\ fatal_msg = None
    /\ server_config = NoConfig
    /\ servers = <<>>
    /\ probes = 0
    /\ i = 1
    /\ recent_servers = <<>>
    /\ launched = <<>>
    /\ rcs = <<>>
    /\ pid = 0
    /\ pid_file = 0
    /\ port_file = 0
    /\ running = {}
    /\ vpn = [NoVpn EXCEPT !.lan_addr = "192.168.1.1", !.def_dev = "eth0"]
    /\ retry_num = 0
    /\ cmds = <<>>
    /\ k = 1
    /\ filter_failed = FALSE
    /\ policy = [c \in Chains |-> "ACCEPT"]
    /\ rules = <<>>
    /\ disk_recent = <<>>
    /\ fw_params = NoParams
    /\ NoForwarding
    /\ NoUnits

\* provider.py:139-158: one iteration of the wait loop, a read of the whole
\* log, and after the last one the lines 154-158
WaitPoll ==
    /\ pc = "device_wait"
    /\ \E lines \in LogReads(log) :
         LET dev == vpn_dev_of(lines)
         IN  /\ log' = lines
             /\ IF dev # None
                THEN /\ vpn' = [vpn EXCEPT !.vpn_dev = dev]
                     /\ pc' = "vpn_config"
                     /\ UNCHANGED <<retry_num, fatal_msg>>
                ELSE IF retry_num < DEVICE_WAIT_MAX_RETRIES
                THEN /\ retry_num' = retry_num + 1
                     /\ UNCHANGED <<vpn, pc, fatal_msg>>
                ELSE LET d == DeviceAfterLoop(vpn.vpn_dev, options.DRYRUN)
                     IN  IF d = None
                         THEN /\ Fatal("no TUN/TAP device")
                              /\ UNCHANGED <<vpn, retry_num>>
                         ELSE /\ vpn' = [vpn EXCEPT !.vpn_dev = d]
                              /\ pc' = "vpn_config"
                              /\ UNCHANGED <<retry_num, fatal_msg>>
    /\ UNCHANGED <<options, server_config, servers, probes, i, recent_servers,
                   launched, rcs, pid, pid_file, port_file, running, cmds, k,
                   filter_failed, policy, rules>>
    /\ UNCHANGED <<disk_recent, fw_params>>
    /\ UNCHANGED pf_vars
    /\ UNCHANGED <<sel_cfg, openvpn_servers, server_patterns,
                   matching_openvpn_servers, killed, invocation>>

WaitNext ==
    \/ WaitPoll

WaitSpec == WaitInit /\ [][WaitNext]_vars

(* ------------------------------ claims --------------------------------- *)
Terminal == pc \in {"returned", "exit"}

\* the tunnel processes this invocation launched and that are still running
OwnTunnels == {p \in running : p > EarlierPid}

FirewallOff == options.NO_FIREWALL \/ server_config.disable_firewall

\* C1: when start is invoked while the PID marker names a live process, the
\* run ends at once with the fatal "already running" error: no tunnel is
\* launched, no marker file is deleted, nothing is appended to the recency
\* list and no packet-filter command is issued.
C1_AlreadyRunningGuard ==
    /\ [][(pc = "execute" /\ pid_file # 0 /\ pid_file \in running)
            => /\ pc' = "exit"
               /\ fatal_msg' = "already running"
               /\ UNCHANGED <<pid_file, port_file, running, launched, rcs,
                              recent_servers, cmds, policy, rules>>]_vars
    /\ [](fatal_msg = "already running"
            => /\ launched = <<>> /\ recent_servers = <<>> /\ cmds = <<>>
               /\ pid_file \in running)

C1_Witness ==
    /\ pc = "exit"
    /\ fatal_msg = "already running"
    /\ pid_file = EarlierPid
    /\ port_file # 0

\* C2: outside a dry run, a packet-filter command has been issued only if
\* the tunnel interface was found in the log of the current candidate, whose
\* launch returned exit code 0 and whose pid answered the liveness probe.
C2_FilterOnlyAfterDevice ==
    (~options.DRYRUN /\ cmds # <<>>)
        => /\ vpn.vpn_dev \in TunDevices
           /\ Len(rcs) = i
           /\ rcs[i] = 0
           /\ pid # 0
           /\ pid = pid_file
           /\ pid \in OwnTunnels

C2_Witness ==
    /\ ~options.DRYRUN
    /\ Len(cmds) = Len(reset)
    /\ vpn.vpn_dev \in TunDevices
    /\ Len(rcs) = 2

\* C3 (as claimed): once a packet-filter command has returned a non-zero
\* exit status the run has ended with a fatal error at that command.
C3_FilterErrorIsFatal ==
    filter_failed => (pc = "exit" /\ fatal_msg = "command failed")

\* C4 (as claimed): in daemon mode with the firewall not disabled, when the
\* run is over and a tunnel it launched is still running, all three chains
\* have the DROP policy.
C4_NoHalfOpenEnd ==
    (Terminal /\ ~options.WAIT /\ ~FirewallOff /\ OwnTunnels # {})
        => \A c \in Chains : policy[c] = "DROP"

\* C5 (as claimed): when the run is over, no candidate was launched after
\* one whose launch returned 0; a last launch that succeeded (exit code 0
\* and, in daemon mode, a live pid) means the run returned normally; and if
\* every launch failed, every candidate was tried and the run ended with
\* the "failed to start" error.  Runs ended by a fatal discovery error
\* (no default route, no tunnel device, unreadable configuration) are left
\* out.
C5_CandidateFallback ==
    (Terminal /\ rcs # <<>>
       /\ fatal_msg \notin {"no default device", "no TUN/TAP device",
                            "failed to access input file"})
        => /\ options.WAIT => \A j \in 1..(Len(rcs) - 1) : rcs[j] # 0
           /\ (rcs[Len(rcs)] = 0 /\ (options.WAIT \/ pid # 0))
                 => pc = "returned"
           /\ (\A j \in 1..Len(rcs) : rcs[j] # 0)
                 => (Len(rcs) = Len(servers) /\ fatal_msg = "failed to start")

\* C6: when select_servers returns None the run ends with the fatal "no
\* matching servers" error before any marker file is deleted, any tunnel is
\* launched, any latency probe is sent or any packet-filter command is
\* issued; the loop is never entered with an empty candidate list.
C6_NoCandidatesAbort ==
    /\ [][(pc = "execute" /\ fatal_msg' = "no matching servers")
            => /\ pc' = "exit"
               /\ UNCHANGED <<pid_file, port_file, running, launched, rcs,
                              recent_servers, probes, cmds, policy, rules>>]_vars
    /\ [](fatal_msg = "no matching servers"
            => launched = <<>> /\ probes = 0 /\ cmds = <<>>)
    /\ [](pc \notin {"execute", "exit"} => servers # <<>>)

C6_Witness ==
    /\ pc = "exit"
    /\ fatal_msg = "no matching servers"
    /\ server_config.matched > 0
    /\ pid_file = EarlierPid
    /\ port_file # 0

\* the step that ends the device wait loop without a match
TimeoutStep ==
    /\ pc = "device_wait"
    /\ retry_num = DEVICE_WAIT_MAX_RETRIES
    /\ pc' # "device_wait"
    /\ vpn'.vpn_dev \notin TunDevices

\* the step that finds no default route
NoRouteStep ==
    /\ pc = "get_vpn_data"
    /\ vpn'.def_dev = None

\* what C7 says of such a step: the run ends there, fatally, with no filter
\* command issued and no further candidate launched
AbortsRun ==
    /\ pc' = "exit"
    /\ fatal_msg' \in {"no TUN/TAP device", "no default device"}
    /\ cmds' = <<>>
    /\ UNCHANGED <<i, launched, rcs, recent_servers, policy, rules>>

\* C7 (as claimed): a tunnel-discovery timeout or a missing default route
\* aborts the run fatally, in every mode.
C7_DiscoveryFailureAborts_AnyMode ==
    [][(TimeoutStep \/ NoRouteStep) => AbortsRun]_vars

\* C7 (amended): outside a dry run, a tunnel-discovery timeout or a missing
\* default route aborts the run fatally: no packet-filter command is
\* issued, no further candidate is launched, and the run does not return
\* normally.  A missing default route does so in a dry run too.
C7_DiscoveryFailureAborts ==
    /\ [][((~options.DRYRUN /\ TimeoutStep) \/ NoRouteStep) => AbortsRun]_vars
    /\ [](fatal_msg \in {"no TUN/TAP device", "no default device"}
            => pc = "exit" /\ cmds = <<>> /\ Len(rcs) = i)

C7_Witness ==
    /\ ~options.DRYRUN
    /\ fatal_msg = "no TUN/TAP device"
    /\ retry_num = DEVICE_WAIT_MAX_RETRIES
    /\ OwnTunnels # {}

C9_MissingRemoteIsFatal ==
    (pc \in {"reset", "sshd_port"} \/ cmds # <<>>)
        => (vpn.addr # None /\ vpn.port # None)

IsPolicy(cmd, chain, target) == cmd = <<"--policy", chain, target>>

\* C10 (as claimed): when the run is over, the firewall was applied and no
\* filter command failed, the commands issued are the three ACCEPT policies,
\* the clearing commands, the three DROP policies (OUTPUT, INPUT, FORWARD)
\* and after them at least the five ACCEPT rules of the lockdown.
C10_FirewallCommandOrder ==
    (Terminal /\ cmds # <<>> /\ ~filter_failed)
        => /\ Len(cmds) >= 14
           /\ IsPolicy(cmds[1], "INPUT", "ACCEPT")
           /\ IsPolicy(cmds[2], "OUTPUT", "ACCEPT")
           /\ IsPolicy(cmds[3], "FORWARD", "ACCEPT")
           /\ <<cmds[4], cmds[5], cmds[6]>> = << <<"-Z">>, <<"-F">>, <<"-X">> >>
           /\ IsPolicy(cmds[7], "OUTPUT", "DROP")
           /\ IsPolicy(cmds[8], "INPUT", "DROP")
           /\ IsPolicy(cmds[9], "FORWARD", "DROP")
           /\ \A j \in 10..Len(cmds) :
                 cmds[j][1] = "-A" /\ cmds[j][Len(cmds[j])] = "ACCEPT"

\* the control-channel rule: the OUTPUT rule that names a protocol and port
IsControlRule(cmd) ==
    Len(cmd) = 12 /\ cmd[1] = "-A" /\ cmd[2] = "OUTPUT" /\ cmd[7] = "-p"

\* C11 (as claimed): once firewall.start has run, a control-channel rule
\* has been issued, and every such rule is the OUTPUT rule on the
\* default-gateway device whose destination address, protocol and
\* destination port are the remote address, protocol and remote port read
\* from the server's configuration.
C11_ControlChannelRule ==
    (pc \in {"firewall.forward_port", "firewall.enable_lan", "firewall.done"})
        => /\ \E j \in 1..Len(cmds) : IsControlRule(cmds[j])
           /\ \A j \in 1..Len(cmds) :
                 IsControlRule(cmds[j])
                    => cmds[j] = <<"-A", "OUTPUT", "-o", vpn.def_dev,
                                   "-d", vpn.addr, "-p", vpn.protocol,
                                   "--dport", vpn.port, "-j", "ACCEPT">>

\* start_firewall has gone as far as it goes: firewall.reset() has returned
FirewallApplied ==
    pc = "sshd_port" \/ (pc = "exit" /\ fatal_msg = "AttributeError")

\* C12 (as claimed): the filter start_firewall leaves depends only on its
\* parameters, never on the filter it found.  A run that finds an open,
\* empty filter leaves ACCEPT policies and no rule whatever the parameters
\* are, so the claim requires that filter of every run that has applied
\* the firewall outside a dry run.
C12_FirewallNotAdditive ==
    (FirewallApplied /\ ~options.DRYRUN)
        => (rules = <<>> /\ \A c \in Chains : policy[c] = "ACCEPT")

\* get_forwarded_port has been called
PortForwardInvoked ==
    client_id # None \/ forwarded_port # NoPort \/ pf_error # None

\* C13 (as claimed): when the run is over, the Port Forward Manager has been
\* invoked if and only if the option set requests port forwarding and the
\* run has applied the firewall without a failed filter command.
C13_PortForwardIffRequested ==
    Terminal
        => (PortForwardInvoked
              <=> (server_config.port_forwarding /\ FirewallApplied
                     /\ ~filter_failed))

\* the forwarding request was sent and failed: no response or a malformed
\* one, or a response without a usable port
RequestFailed ==
    /\ request # None
    /\ \/ json_response.kind \in {"none", "empty", "missing", "text"}
       \/ json_response.kind = "int" /\ json_response.port <= 0

\* C14 (as claimed): a failed forwarding request is reported without
\* aborting: get_forwarded_port returns to start_firewall, with an error
\* reported and without a port.
C14_ForwardingFailureIsSoft ==
    (RequestFailed /\ pc \in {"pf_returned", "pf_raised"})
        => (pc = "pf_returned" /\ pf_error # None /\ forwarded_port = NoPort)

\* a rule of the INPUT chain that names a destination port
IsForwardingRule(cmd) ==
    Len(cmd) = 10 /\ cmd[1] = "-A" /\ cmd[2] = "INPUT" /\ cmd[7] = "--dport"

\* C15 (as claimed): when a forwarded port p is obtained, exactly two
\* forwarding rules are issued, first TCP and then UDP, each an INPUT
\* ACCEPT rule with destination port p matching the tunnel device as
\* inbound interface (-i), both after the ESTABLISHED/RELATED rule.
C15_ForwardingRules ==
    (pc \in {"firewall.enable_lan", "firewall.done"}
        /\ fw_params.port_forwarding /\ ~forwarded_port.none)
        => LET fr == {j \in 1..Len(cmds) : IsForwardingRule(cmds[j])}
               p  == PortArg(forwarded_port)
           IN  /\ Cardinality(fr) = 2
               /\ \A j \in fr :
                    /\ cmds[j] \in
                         {<<"-A", "INPUT", "-i", vpn.vpn_dev, "-p", proto,
                            "--dport", p, "-j", "ACCEPT">> :
                              proto \in {"tcp", "udp"}}
                    /\ \E e \in 1..(j - 1) : cmds[e] = enable_input_states
               /\ \E j \in fr : cmds[j][6] = "tcp"
               /\ \E j \in fr : cmds[j][6] = "udp"

\* a LAN bridging rule has been issued
LanRuleIssued ==
    \E j \in 1..Len(cmds) :
        \E r \in 1..2 : cmds[j] = enable_lan(vpn.def_dev, vpn.lan_addr)[r]

\* C16 (as claimed): in a run that has applied the firewall, the LAN
\* bridging rules have been issued if and only if the option set's
\* block_lan flag is not set.
C16_LanRulesIffNotBlocked ==
    (Terminal /\ FirewallApplied)
        => (LanRuleIssued <=> ~server_config.block_lan)

\* the call needs a fresh identifier: no stored one, or new_port given
NeedsFreshId == new_port \/ client_id_file \notin StoredIds

\* C17 (as claimed): a request made with a stored identifier carries the
\* identifier in the file; a call that needs a fresh identifier has, when
\* it ends, written the fresh identifier to the file and sent the request
\* with it; whenever a request has been sent, the file holds its identifier.
C17_ClientIdOnDiskAtRequest ==
    /\ request # None => client_id_file = request
    /\ (pc \in {"pf_returned", "pf_raised"} /\ ~options.DRYRUN /\ NeedsFreshId)
          => (client_id_file = FreshId /\ request = FreshId)

\* C18 (as claimed): once the response has been handled, a missing,
\* non-numeric, zero or negative 'port' has produced an error, no write of
\* the port marker file and no returned port; a positive 'port' is in the
\* port marker file and is the returned port.
C18_OnlyPositivePortPersisted ==
    (pc \in {"pf_returned", "pf_raised"}
        /\ json_response.kind \in {"missing", "text", "int"})
        => IF json_response.kind = "int" /\ json_response.port > 0
           THEN /\ port_file = json_response.port
                /\ forwarded_port = SomePort(json_response.port)
           ELSE /\ pf_error # None
                /\ port_file \in {0, EarlierPort}
                /\ forwarded_port = NoPort

C20_RecencyPersisted ==
    (Terminal /\ rcs # <<>>)
        => LET d == Len(disk_recent)
               n == Len(recent_servers)
           IN  d >= n /\ SubSeq(disk_recent, d - n + 1, d) = recent_servers

\* select_servers has been called for sel_cfg
Selected == pc # "execute" /\ fatal_msg # "already running"

\* the discipline of sel_cfg, absent meaning first, in lower case
DisciplineOf(cfg) ==
    Lower(IF cfg.discipline = None THEN "first" ELSE cfg.discipline)

\* positions in cfg.servers of the servers the port-forwarding flag keeps
Kept(cfg) ==
    {j \in 1..Len(cfg.servers) :
        cfg.port_forwarding => cfg.servers[j].port_forwarding}

PosOf(cfg, n) == CHOOSE j \in 1..Len(cfg.servers) : cfg.servers[j].name = n

\* the server at position a of cfg.servers goes before the one at b
GoesBefore(cfg, a, b) ==
    LET ra == cfg.servers[a].recent_order
        rb == cfg.servers[b].recent_order
    IN  CASE DisciplineOf(cfg) = "recent"   -> ra < rb \/ (ra = rb /\ a < b)
          [] DisciplineOf(cfg) = "rotation" -> ra > rb \/ (ra = rb /\ a < b)
          [] OTHER                          -> a < b

\* C21: for first, recent and rotation the selection is the servers the
\* port-forwarding flag keeps, each once, in matched order (first),
\* ascending recent_order (recent) or descending recent_order (rotation),
\* ties in matched order; it is none, ending the run with 'no matching
\* servers', exactly when the flag keeps no server.
C21_SelectionOrder ==
    (Selected /\ DisciplineOf(sel_cfg) \in {"first", "recent", "rotation"})
        => IF Kept(sel_cfg) = {}
           THEN pc = "exit" /\ fatal_msg = "no matching servers"
           ELSE /\ pc = "connect"
                /\ Len(servers) = Cardinality(Kept(sel_cfg))
                /\ \A a \in 1..Len(servers) :
                      \E j \in Kept(sel_cfg) : sel_cfg.servers[j].name = servers[a]
                /\ \A a, b \in 1..Len(servers) :
                      a < b => GoesBefore(sel_cfg, PosOf(sel_cfg, servers[a]),
                                          PosOf(sel_cfg, servers[b]))

\* rotation puts the second matched server first, and keeps a tie in order
C21_Witness ==
    /\ pc = "connect"
    /\ sel_cfg.discipline = "rotation"
    /\ Len(sel_cfg.servers) = 2
    /\ sel_cfg.servers[1].recent_order < sel_cfg.servers[2].recent_order
    /\ servers = <<sel_cfg.servers[2].name, sel_cfg.servers[1].name>>

\* C24 (as claimed): under fastest select_servers has sent one probe per
\* server of the option set and returns: the run goes on with the kept
\* servers, each once, or ends with 'no matching servers'.
C24_FastestProbesEach ==
    (Selected /\ DisciplineOf(sel_cfg) = "fastest")
        => /\ probes = Len(sel_cfg.servers)
           /\ IF Kept(sel_cfg) = {}
              THEN fatal_msg = "no matching servers"
              ELSE /\ pc = "connect"
                   /\ Len(servers) = Cardinality(Kept(sel_cfg))
                   /\ Range(servers) =
                        {sel_cfg.servers[j].name : j \in Kept(sel_cfg)}

C26_BadDisciplineIsFatal ==
    (Selected
        /\ DisciplineOf(sel_cfg) \notin {"first", "recent", "fastest", "rotation"})
        => /\ pc = "exit"
           /\ fatal_msg = "bad_discipline"
           /\ pid_file = EarlierPid /\ port_file = EarlierPort
           /\ launched = <<>> /\ rcs = <<>> /\ cmds = <<>>

C26_Witness ==
    /\ pc = "exit"
    /\ fatal_msg = "bad_discipline"
    /\ sel_cfg.discipline = "bogus"
    /\ Len(sel_cfg.servers) = 2
    /\ ~options.DRYRUN

\* C28: in wait mode a launch that returned exit code 0 is the last launch
\* of the run and leaves the run returned (Connected), never in the fatal
\* "failed to start"
C28_WaitSuccessEndsRun ==
    (options.WAIT /\ \E j \in 1..Len(rcs) : rcs[j] = 0) =>
        /\ \A j \in 1..(Len(rcs) - 1) : rcs[j] # 0
        /\ fatal_msg # "failed to start"
        /\ pc = "returned"

\* a stop that went past the liveness probe and returned
StopReturned == pc = "returned" /\ pid # 0 /\ rcs # <<>>

C30_StaleMarkersDeletedOnStop ==
    (pc = "exit" /\ fatal_msg = "not running") =>
        pid_file = 0 /\ port_file = 0

\* the name with its case folded
FoldName(nm) == [j \in 1..Len(nm) |-> Fold(nm[j])]

\* what a pattern with at most one '*' stands for: without '*' the whole
\* name, with '*' a prefix and a suffix that do not overlap, case ignored
StarAt(pat) == {j \in 1..Len(pat) : pat[j] = "*"}

WildcardMatch(pat, nm) ==
    IF StarAt(pat) = {} THEN FoldName(pat) = FoldName(nm)
    ELSE LET st  == CHOOSE j \in StarAt(pat) : TRUE
             pre == st - 1
             suf == Len(pat) - st
         IN  /\ Len(nm) >= pre + suf
             /\ \A j \in 1..pre : Fold(pat[j]) = Fold(nm[j])
             /\ \A j \in 1..suf :
                    Fold(pat[st + j]) = Fold(nm[Len(nm) - suf + j])

\* position of the first pattern that stands for the name
FirstPattern(nm) ==
    Min({j \in 1..Len(server_patterns) : WildcardMatch(server_patterns[j], nm)})

CatalogPos(nm) ==
    CHOOSE j \in 1..Len(openvpn_servers) : openvpn_servers[j] = nm

C22_MostRecentIsFirst ==
    [][(/\ pc = "idle" /\ pc' # "idle"
        /\ DisciplineOf(sel_cfg) = "recent"
        /\ rcs # <<>> /\ rcs[Len(rcs)] = 0
        /\ servers' # <<>>)
       => servers'[1] = recent_servers[Len(recent_servers)]]_vars

\* C23: under discipline rotation, when every run connects to its first
\* candidate, every candidate of the option set is the first candidate of
\* some run
C23_RotationVisitsAll ==
    \A n \in Names :
        \/ <>(Len(launched) > 1 \/ pc = "failed")
        \/ <>(/\ pc = "connected"
              /\ (DisciplineOf(sel_cfg) = "rotation" /\ n \in Range(servers))
                    => servers[1] = n)

\* the run ended in select_servers or on its empty result, before line 46
EndedAtSelection ==
    fatal_msg \in {"already running", "no matching servers",
                   "UnboundLocalError", "bad_discipline"}

C32_MutualExclusion ==
    /\ Cardinality({p \in Procs : invocation[p].launched}) <= 1
    /\ Cardinality({p \in Procs : invocation[p].filtered}) <= 1

\* C33: at most one tunnel process launched by the run is alive at any
\* time; when the loop is about to launch a candidate, no process launched
\* for an earlier candidate is alive and the latest PID-marker probe of the
\* run found no live process
C33_OneTunnelPerRun ==
    /\ Cardinality(OwnTunnels) <= 1
    /\ pc \in {"connect", "launch"} => (OwnTunnels = {} /\ pid = 0)

\* the second candidate's daemon is alive after the first one's launch had
\* returned 0 and its process was probed dead
C33_Witness ==
    /\ ~options.DRYRUN
    /\ ~options.WAIT
    /\ Len(launched) = 2
    /\ rcs = <<0, 0>>
    /\ Cardinality(OwnTunnels) = 1

\* no line of the log as last read names a device
NothingNamed == \A j \in 1..Len(log) : vpn_device_regex(log[j]) = None

\* dev is named by the first line of the log as last read that names one
FirstNamed(dev) ==
    \E j \in 1..Len(log) :
        /\ vpn_device_regex(log[j]) = dev
        /\ \A h \in 1..(j - 1) : vpn_device_regex(log[h]) = None

\* C34 as stated, for every mode: the loop reads the log at most
\* DEVICE_WAIT_MAX_RETRIES + 1 times and goes on only while no read named a
\* device; it ends with the device the first naming line of the last read
\* names, or, when no read named one, with the fatal "no TUN/TAP device"
C34_DeviceDiscovery_AnyMode ==
    /\ retry_num <= DEVICE_WAIT_MAX_RETRIES
    /\ pc = "device_wait" => NothingNamed
    /\ pc = "vpn_config" => FirstNamed(vpn.vpn_dev)
    /\ pc = "exit" => /\ fatal_msg = "no TUN/TAP device"
                      /\ retry_num = DEVICE_WAIT_MAX_RETRIES
                      /\ NothingNamed

\* C34 amended: the same outside a dry run; in a dry run the loop that
\* named no device ends with the placeholder device instead of the error
C34_DeviceDiscovery ==
    /\ retry_num <= DEVICE_WAIT_MAX_RETRIES
    /\ pc = "device_wait" => NothingNamed
    /\ pc = "vpn_config" =>
          \/ FirstNamed(vpn.vpn_dev)
          \/ /\ options.DRYRUN
             /\ vpn.vpn_dev = DRYRUN_TUN_DEVICE
             /\ retry_num = DEVICE_WAIT_MAX_RETRIES
             /\ NothingNamed
    /\ pc = "exit" => /\ fatal_msg = "no TUN/TAP device"
                      /\ ~options.DRYRUN
                      /\ retry_num = DEVICE_WAIT_MAX_RETRIES
                      /\ NothingNamed

\* the device line was written late, after an unrelated line: the second
\* read found it
C34_Witness ==
    /\ pc = "vpn_config"
    /\ ~options.DRYRUN
    /\ retry_num = 1
    /\ log = <<"Initialization Sequence Completed",
               "TUN/TAP device tun1 opened">>
    /\ vpn.vpn_dev = "tun1"

\* the latest launch returned 0 in daemon mode and the probe of the PID
\* marker then found no live process
DeadAfterLaunch ==
    /\ ~options.WAIT
    /\ ~options.DRYRUN
    /\ rcs # <<>>
    /\ rcs[Len(rcs)] = 0
    /\ pid = 0

\* C35: such an attempt is a soft failure: no filter command has been
\* issued, the loop is at the next candidate, and the run is over only by
\* the fatal "failed to start" after the last candidate
C35_DeadPidIsSoftFailure ==
    DeadAfterLaunch =>
        /\ cmds = <<>>
        /\ vpn = NoVpn
        /\ i = Len(rcs) + 1
        /\ pc \in {"connect", "launch", "exit"}
        /\ pc = "exit" => /\ fatal_msg = "failed to start"
                          /\ Len(rcs) = Len(servers)

\* both candidates were launched with exit code 0 and probed dead
C35_Witness ==
    /\ DeadAfterLaunch
    /\ rcs = <<0, 0>>
    /\ Len(launched) = 2
    /\ pc = "exit"
    /\ fatal_msg = "failed to start"

\* C36: with the firewall switched off by the option or by the option set,
\* a daemon-mode run that has launched a live tunnel has returned, having
\* issued no packet-filter command, made no default-route or log query
\* and no forwarding request, and left no port marker
C36_NoFirewallRun ==
    (FirewallOff /\ ~options.WAIT /\ OwnTunnels # {}) =>
        /\ pc = "returned"
        /\ fatal_msg = None
        /\ cmds = <<>>
        /\ vpn = NoVpn
        /\ retry_num = 0
        /\ request = None
        /\ forwarded_port = NoPort
        /\ port_file = 0

\* the option set switches the firewall off and asks for port forwarding;
\* the second candidate's tunnel is alive
C36_Witness ==
    /\ ~options.NO_FIREWALL
    /\ server_config.disable_firewall
    /\ server_config.port_forwarding
    /\ ~options.WAIT
    /\ OwnTunnels # {}
    /\ Len(launched) = 2
    /\ pc = "returned"

\* C37: stop issues no packet-filter command and no step of it changes the
\* chain policies or the rules, so a lockdown in force before it stays
C37_StopLeavesFilter ==
    /\ [](cmds = <<>>)
    /\ [][policy' = policy /\ rules' = rules]_vars

\* a stop has ended the tunnel and returned with the lockdown still in force
C37_Witness ==
    /\ StopReturned
    /\ ~options.DRYRUN
    /\ pid \in killed
    /\ pid \notin running
    /\ \A c \in Chains : policy[c] = "DROP"
    /\ rules # <<>>

\* C38: after a stop that returned, an absent PID marker means that the
\* tunnel it was called for is not running, and a stop whose kill command
\* failed has left the PID marker in place
C38_NoMarkerNoTunnel ==
    StopReturned =>
        /\ pid_file = 0 => pid \notin running
        /\ rcs[Len(rcs)] # 0 => pid_file = pid

\* C39: in a dry run start performs no mutating external action: no step
\* launches a tunnel process, applies a packet-filter command, deletes or
\* writes a marker, the identifier file or the state file, or sends a
\* forwarding request; the device wait ends with the placeholder device
\* instead of the timeout error
C39_DryRunMutatesNothing ==
    /\ [](options.DRYRUN =>
            /\ launched = <<>>
            /\ request = None
            /\ fatal_msg # "no TUN/TAP device")
    /\ [][options.DRYRUN =>
            UNCHANGED <<pid_file, port_file, running, policy, rules,
                        disk_recent, client_id_file>>]_vars

\* a dry run that began with the markers of an exited tunnel has gone through
\* the launch, the device wait and the whole filter reset
C39_Witness ==
    /\ options.DRYRUN
    /\ pid = DRYRUN_PID
    /\ vpn.vpn_dev = DRYRUN_TUN_DEVICE
    /\ pc = "sshd_port"
    /\ pid_file = EarlierPid
    /\ port_file = EarlierPort
    /\ EarlierPid \notin running
    /\ policy = [c \in Chains |-> "DROP"]

====
